---- MODULE Spec2Model ----
(***************************************************************************)
(* Model of mbed::I2S (source/I2S.cpp, mbed-drivers/I2S.h): the            *)
(* asynchronous transfer manager of a serial audio unit shared by several  *)
(* I2S objects.  The foreground program runs one call at a time and is     *)
(* preempted between its statements by the tx and rx interrupt handlers;   *)
(* a CriticalSectionLock block is one step.  An interrupt handler runs to  *)
(* completion.                                                             *)
(***************************************************************************)
EXTENDS Integers, Sequences, FiniteSets, TLC

\* ------------------------------------------------------------------ bounds
NumHandles == 2       \* I2S objects bound to the one physical unit
QueueSize == 2        \* TRANSACTION_QUEUE_SIZE_I2S, capacity of _transaction_buffer
MaxTransfers == 4     \* submissions (executions of I2S::transfer(td)) in a run
MaxMutations == 1     \* configuration mutator calls in a run
MaxCallbackTransfers == 2   \* submissions in a run of SpecCallback
MaxConfigTransfers == 2     \* submissions in a run of SpecConfig
MaxStatusTransfers == 2      \* submissions in a run of SpecStatus
MaxSetterTransfers == 2      \* submissions in a run of SpecSetters
MaxLen == 1           \* largest buffer length passed to tx() and rx()
MaxEventTransfers == 2       \* submissions in a run of SpecEvents
MaxLiveTransfers == 3        \* submissions in a run of SpecLive
MaxLockTransfers == 2        \* submissions in a run of SpecLocks
MaxAbortTransfers == 3       \* submissions in a run of SpecAbort
MaxAquires == 4       \* aquire() calls and invalidations recorded in a run of SpecAquire

Handles == 1..NumHandles
NULL == 0
Channels == {"tx", "rx"}
Fields == {"format", "hz", "protocol", "mode"}

\* event bits returned by i2s_irq_handler_asynch: I2S_EVENT_ALL is the mask of
\* the events a callback can be registered for, the completion of the
\* transfer and the events of a single buffer
I2S_EVENT_ALL == {"COMPLETE", "BUFFER"}
I2S_EVENT_INTERNAL_TRANSFER_COMPLETE == {"INTERNAL"}

\* transaction_data_t: id is the serial number of the submission, cb whether
\* a callback is registered, tx and rx the lengths of the buffers
NoTd == [id |-> 0, cb |-> FALSE, tx |-> 0, rx |-> 0, circular |-> FALSE]
BuilderFields == {"tx", "rx", "circular", "callback"}
NoPost == [cb |-> 0, cause |-> 0]
NoIrq == [ev |-> {}, id |-> 0]
DefaultCfg == [f \in Fields |-> 0]
NoBuilder == [live |-> FALSE, h |-> 0, td |-> NoTd, applied |-> FALSE, rc |-> 0, calls |-> 0,
              set |-> {}]

VARIABLES
    st,     \* the I2S objects, the static members, the unit behind the HAL, history
    fg,     \* the foreground call in progress: pc, this, locals
    bld,    \* the I2STransferAdder held by the caller
    hist    \* counters and observations of the foreground program

vars == <<st, fg, bld, hist>>

\* ------------------------------------------------ CircularBuffer (queue)
full(q) == Len(q) >= QueueSize
push(q, e) == Append(q, e)
reset(q) == <<>>
size(q) == Len(q)

\* ------------------------------------------------------------ the HAL
\* i2s_active(&_i2s)
i2s_active(s) == s.hwActive # 0

\* i2s_abort_asynch(&_i2s): stops the running transfer and its interrupts
i2s_abort_asynch(s) ==
    [s EXCEPT !.hwActive = 0, !.pend = [c \in Channels |-> NoIrq]]

\* i2s_master_transfer(...): the unit starts td with the thunks of h.
\* overlap records a start issued while another transfer was still running;
\* smBusy is the state of the transfer state machine, Busy from a start up to
\* the dequeue that finds the queue empty.
i2s_master_transfer(s, h, td) ==
    [s EXCEPT !.overlap = @ \/ (s.hwActive # 0),
              !.smBusy = TRUE,
              !.hwActive = td.id,
              !.irqObj = h,
              !.startLog = Append(@, td.id)]

\* i2s_format, i2s_audio_frequency, i2s_set_protocol, i2s_set_mode
i2s_format(s, h) == [s EXCEPT !.hwCfg["format"] = s.cfg[h]["format"]]
i2s_audio_frequency(s, h) == [s EXCEPT !.hwCfg["hz"] = s.cfg[h]["hz"]]
i2s_set_protocol(s, h) == [s EXCEPT !.hwCfg["protocol"] = s.cfg[h]["protocol"]]
i2s_set_mode(s, h) == [s EXCEPT !.hwCfg["mode"] = s.cfg[h]["mode"]]

\* ------------------------------------------------------------ I2S
\* alog is history: the first logCap assignments of _owner and calls of
\* aquire(), each with the object (NULL for an invalidation) and whether the
\* configuration was written
logged(s, h, w) ==
    IF Len(s.alog) < s.logCap THEN Append(s.alog, [h |-> h, wrote |-> w]) ELSE s.alog

\* aquire() without the test of _owner
aquire_always(s, h) ==
    [i2s_set_mode(i2s_set_protocol(i2s_audio_frequency(i2s_format(s, h), h), h), h)
        EXCEPT !.owner = h, !.wrote = TRUE, !.after = s.dirty, !.dirty = "no",
               !.alog = logged(s, h, TRUE)]

\* I2S::aquire.  History: wrote, whether this call wrote the configuration;
\* dirty, whether a mutator has set _owner = NULL since the last aquire
\* ("owner" when the mutating object was the owner); after, the value of
\* dirty this call found.
aquire(s, h) ==
    IF s.owner # h
    THEN [i2s_set_mode(i2s_set_protocol(i2s_audio_frequency(i2s_format(s, h), h), h), h)
            EXCEPT !.owner = h, !.wrote = TRUE, !.after = s.dirty, !.dirty = "no",
                   !.alog = logged(s, h, TRUE)]
    ELSE [s EXCEPT !.wrote = FALSE, !.after = s.dirty, !.dirty = "no",
                   !.alog = logged(s, h, FALSE)]

\* bare is history, kept in the runs that set audit: the shared members that
\* were written with no CriticalSectionLock in scope
unlocked(s, member) == IF s.audit THEN s.bare \cup {member} ELSE s.bare

\* I2S::start_transfer, statement by statement
set_current(s, h, td) ==
    [s EXCEPT !.cur[h] = td, !.bare = unlocked(s, "_current_transaction")]

start_transfer(s, h, td) ==
    i2s_master_transfer(set_current(aquire(s, h), h, td), h, td)

\* I2S::start_transaction
start_transaction(s, h, td) == start_transfer(s, h, td)

\* queue_transfer without the test of full()
queue_transfer_unchecked(s, h, td) ==
    [s |-> [s EXCEPT !.queue = push(@, [obj |-> h, td |-> td])], rc |-> 0]

\* I2S::queue_transfer: the state after, and the result
queue_transfer(s, h, td) ==
    IF full(s.queue)
    THEN [s |-> s, rc |-> -1]
    ELSE [s |-> [s EXCEPT !.queue = push(@, [obj |-> h, td |-> td])], rc |-> 0]

\* I2S::dequeue_transaction on object h
dequeue_transaction(s, h) ==
    LET dequeued == s.queue # <<>>
        t == IF dequeued THEN Head(s.queue) ELSE [obj |-> h, td |-> NoTd]
        s1 == [s EXCEPT !.queue = IF dequeued THEN Tail(@) ELSE @,
                        !.busy[h] = dequeued,
                        !.smBusy = dequeued]
    IN IF dequeued THEN start_transaction(s1, t.obj, t.td) ELSE s1

\* minar::Scheduler::postCallback(callback.bind(tx_buffer, rx_buffer, event)):
\* lastPost is the transfer whose callback and buffers were posted last, and
\* the transfer whose completion raised the interrupt
postCallback(s, td, cause) == [s EXCEPT !.lastPost = [cb |-> td.id, cause |-> cause]]

\* I2S::irq_handler_asynch_rx on the object whose thunk the unit holds
irq_handler_asynch_rx(s) ==
    LET h == s.irqObj
        event == s.pend["rx"].ev
        s1 == [s EXCEPT !.pend["rx"] = NoIrq]
        s2 == IF s1.cur[h].cb /\ (event \cap I2S_EVENT_ALL) # {}
              THEN postCallback(s1, s1.cur[h], s.pend["rx"].id)
              ELSE s1
    IN IF (event \cap (I2S_EVENT_ALL \cup I2S_EVENT_INTERNAL_TRANSFER_COMPLETE)) # {}
       THEN dequeue_transaction(s2, h)
       ELSE s2

\* I2S::irq_handler_asynch_tx
irq_handler_asynch_tx(s) ==
    LET h == s.irqObj
        event == s.pend["tx"].ev
        s1 == [s EXCEPT !.pend["tx"] = NoIrq]
        s2 == IF s1.cur[h].cb /\ (event \cap I2S_EVENT_ALL) # {}
              THEN postCallback(s1, s1.cur[h], s.pend["tx"].id)
              ELSE s1
    IN IF (event \cap (I2S_EVENT_ALL \cup I2S_EVENT_INTERNAL_TRANSFER_COMPLETE)) # {}
       THEN dequeue_transaction(s2, h)
       ELSE s2

\* I2S::abort_transfer: nothing can preempt between the abort and the dequeue,
\* the unit being stopped with its interrupts
abort_transfer(s, h) == dequeue_transaction(i2s_abort_asynch(s), h)

\* I2S::get_transfer_status
get_transfer_status(s) == IF i2s_active(s) THEN -1 ELSE 0

\* clear_transfer_buffer that leaves the queue as it is
clear_transfer_buffer_keeps(s) ==
    [s EXCEPT !.dropped = @ \cup {s.queue[i].td.id : i \in 1..Len(s.queue)}]

\* clear_transfer_buffer that also stops the unit
clear_transfer_buffer_stops(s) ==
    [s EXCEPT !.dropped = @ \cup {s.queue[i].td.id : i \in 1..Len(s.queue)},
              !.queue = reset(@), !.hwActive = 0,
              !.bare = unlocked(s, "_transaction_buffer")]

\* I2S::clear_transfer_buffer; dropped is history
clear_transfer_buffer(s) ==
    [s EXCEPT !.dropped = @ \cup {s.queue[i].td.id : i \in 1..Len(s.queue)},
              !.queue = reset(@),
              !.bare = unlocked(s, "_transaction_buffer")]

\* a mutator that leaves _owner as it is
set_field_keeps_owner(s, h, f, v) ==
    [s EXCEPT !.cfg[h][f] = v,
              !.dirty = IF s.owner = h \/ s.dirty = "owner" THEN "owner" ELSE "yes",
              !.alog = logged(s, NULL, FALSE)]

\* the statements of a mutator before its aquire(): the field, then _owner = NULL
set_field(s, h, f, v) ==
    [s EXCEPT !.cfg[h][f] = v, !.owner = NULL,
              !.dirty = IF s.owner = h \/ s.dirty = "owner" THEN "owner" ELSE "yes",
              !.alog = logged(s, NULL, FALSE)]

\* ------------------------------------------------------------ Init
\* the session state a caller can observe: the objects' flags and current
\* transactions, the static members and the activity of the unit
Session(s) ==
    [busy |-> s.busy, cur |-> s.cur, queue |-> s.queue, owner |-> s.owner,
     hwActive |-> s.hwActive]

NoCall == [pc |-> "idle", h |-> 0, td |-> NoTd, queue |-> FALSE, cont |-> "none"]

InitSt ==
            [busy |-> [h \in Handles |-> FALSE],
             cur |-> [h \in Handles |-> NoTd],
             owner |-> NULL,
             queue |-> <<>>,
             cfg |-> [h \in Handles |-> DefaultCfg],
             hwActive |-> 0,
             hwCfg |-> DefaultCfg,
             irqObj |-> 0,
             pend |-> [c \in Channels |-> NoIrq],
             overlap |-> FALSE,
             smBusy |-> FALSE,
             startLog |-> <<>>,
             lastPost |-> NoPost,
             dropped |-> {},
             bare |-> {},
             audit |-> FALSE,
             wrote |-> FALSE,
             after |-> "no",
             dirty |-> "no",
             alog |-> <<>>,
             logCap |-> 0]

InitWith(quota) ==
    /\ st = InitSt
    /\ fg = NoCall
    /\ bld = NoBuilder
    /\ hist = [nextId |-> 1, quota |-> quota, nsub |-> 0, rc |-> 0, applyrc |-> 0,
               fkill |-> {}, killed |-> {}, nmut |-> 0, status |-> 0]

Init == InitWith(MaxTransfers)

\* An interrupt raised by the unit is taken before the next foreground
\* statement: the foreground runs only while no interrupt is pending.
IrqPending == \E c \in Channels : st.pend[c] # NoIrq

\* entry into I2S::transfer(const I2STransferAdder &) on object h with td;
\* nsub counts the calls made for the builder request in progress
call_transfer(h, td, cont) ==
    /\ fg' = [pc |-> "t_lock", h |-> h, td |-> td, queue |-> FALSE, cont |-> cont]
    /\ hist' = [hist EXCEPT !.nsub = @ + 1]

\* return of I2S::transfer(const I2STransferAdder &) with result rc: into
\* apply() called by the user (_rc = rc), into apply() called by the
\* destructor of the caller's builder, or into that of the local a
return_transfer(rc) ==
    /\ fg' = [NoCall EXCEPT !.pc = IF fg.cont = "dtor" THEN "idle" ELSE "build"]
    /\ bld' = IF fg.cont = "apply" THEN [bld EXCEPT !.rc = rc]
              ELSE IF fg.cont = "dtor" THEN NoBuilder
              ELSE bld
    /\ hist' = [hist EXCEPT !.rc = rc,
                            !.applyrc = IF fg.cont = "apply" THEN rc ELSE @]

\* ------------------------------------------------- I2STransferAdder
\* I2S::transfer(): I2STransferAdder a(this); return a;  with the copy elided
transfer_adder_elided(h) ==
    /\ ~IrqPending
    /\ fg.pc = "idle"
    /\ hist.nextId <= hist.quota
    /\ bld' = [NoBuilder EXCEPT !.live = TRUE, !.h = h, !.td.id = hist.nextId]
    /\ fg' = [fg EXCEPT !.pc = "build"]
    /\ hist' = [hist EXCEPT !.nextId = @ + 1, !.nsub = 0]
    /\ UNCHANGED st

\* I2S::transfer() with the copy made: the copy constructor assigns _td and
\* _owner and sets _applied = 0, then ~a runs apply() on the local a
transfer_adder_copied(h) ==
    /\ ~IrqPending
    /\ fg.pc = "idle"
    /\ hist.nextId + 1 <= hist.quota
    /\ bld' = [NoBuilder EXCEPT !.live = TRUE, !.h = h, !.td.id = hist.nextId + 1]
    /\ fg' = [pc |-> "t_lock", h |-> h, td |-> [NoTd EXCEPT !.id = hist.nextId],
              queue |-> FALSE, cont |-> "tmp"]
    /\ hist' = [hist EXCEPT !.nextId = @ + 2, !.nsub = 1]
    /\ UNCHANGED st

\* I2STransferAdder::callback(cb, event); cbv is whether cb is a non-null
\* function.  A failed MBED_ASSERT halts the program.  set is history: the
\* fields of the builder whose setter has returned.
callback(cbv) ==
    /\ ~IrqPending
    /\ fg.pc = "build"
    /\ IF bld.td.cb
       THEN /\ fg' = [fg EXCEPT !.pc = "halt"]
            /\ UNCHANGED bld
       ELSE /\ bld' = [bld EXCEPT !.td.cb = cbv, !.set = @ \cup {"callback"}]
            /\ UNCHANGED fg
    /\ UNCHANGED <<st, hist>>

\* I2STransferAdder::tx(txBuf, txSize)
tx(txSize) ==
    /\ ~IrqPending
    /\ fg.pc = "build"
    /\ IF bld.td.tx # 0
       THEN /\ fg' = [fg EXCEPT !.pc = "halt"]
            /\ UNCHANGED bld
       ELSE /\ bld' = [bld EXCEPT !.td.tx = txSize, !.set = @ \cup {"tx"}]
            /\ UNCHANGED fg
    /\ UNCHANGED <<st, hist>>

\* I2STransferAdder::rx(rxBuf, rxSize)
rx(rxSize) ==
    /\ ~IrqPending
    /\ fg.pc = "build"
    /\ IF bld.td.rx # 0
       THEN /\ fg' = [fg EXCEPT !.pc = "halt"]
            /\ UNCHANGED bld
       ELSE /\ bld' = [bld EXCEPT !.td.rx = rxSize, !.set = @ \cup {"rx"}]
            /\ UNCHANGED fg
    /\ UNCHANGED <<st, hist>>

\* I2STransferAdder::circular(mode)
circular(mode) ==
    /\ ~IrqPending
    /\ fg.pc = "build"
    /\ bld' = [bld EXCEPT !.td.circular = mode, !.set = @ \cup {"circular"}]
    /\ UNCHANGED <<st, fg, hist>>

\* apply() without the test of _applied
apply_unguarded ==
    /\ ~IrqPending
    /\ fg.pc = "build"
    /\ bld' = [bld EXCEPT !.applied = TRUE, !.calls = IF @ < 2 THEN @ + 1 ELSE @]
    /\ call_transfer(bld.h, bld.td, "apply")
    /\ UNCHANGED st

\* I2STransferAdder::apply(), called by the user; calls counts the calls of
\* apply() on this builder, up to two
apply ==
    /\ ~IrqPending
    /\ fg.pc = "build"
    /\ IF ~bld.applied
       THEN /\ bld' = [bld EXCEPT !.applied = TRUE, !.calls = 1]
            /\ call_transfer(bld.h, bld.td, "apply")
       ELSE /\ bld' = [bld EXCEPT !.calls = 2]
            /\ hist' = [hist EXCEPT !.applyrc = bld.rc]
            /\ UNCHANGED fg
    /\ UNCHANGED st

\* I2STransferAdder::~I2STransferAdder() of the caller's builder: apply();
destroy ==
    /\ ~IrqPending
    /\ fg.pc = "build"
    /\ IF ~bld.applied
       THEN /\ bld' = [bld EXCEPT !.applied = TRUE, !.calls = 1]
            /\ call_transfer(bld.h, bld.td, "dtor")
       ELSE /\ bld' = NoBuilder
            /\ fg' = [fg EXCEPT !.pc = "idle"]
            /\ UNCHANGED hist
    /\ UNCHANGED st

\* ------------------------------- I2S::transfer(const I2STransferAdder &)
\* { CriticalSectionLock lock; queue = _busy; _busy = true; }
transfer_lock ==
    /\ ~IrqPending
    /\ fg.pc = "t_lock"
    /\ fg' = [fg EXCEPT !.pc = "t_check", !.queue = st.busy[fg.h]]
    /\ st' = [st EXCEPT !.busy[fg.h] = TRUE]
    /\ UNCHANGED <<bld, hist>>

\* if (queue || i2s_active(&_i2s))
transfer_check ==
    /\ ~IrqPending
    /\ fg.pc = "t_check"
    /\ fg' = [fg EXCEPT !.pc = IF fg.queue \/ i2s_active(st) THEN "t_queue" ELSE "s_aquire"]
    /\ UNCHANGED <<st, bld, hist>>

\* return queue_transfer(td._td);
transfer_queue ==
    /\ ~IrqPending
    /\ fg.pc = "t_queue"
    /\ LET r == queue_transfer(st, fg.h, fg.td)
       IN /\ st' = r.s
          /\ return_transfer(r.rc)

\* start_transfer(td._td): aquire();
transfer_start_aquire ==
    /\ ~IrqPending
    /\ fg.pc = "s_aquire"
    /\ st' = aquire(st, fg.h)
    /\ fg' = [fg EXCEPT !.pc = "s_cur"]
    /\ UNCHANGED <<bld, hist>>

\* _current_transaction = td;
transfer_start_current ==
    /\ ~IrqPending
    /\ fg.pc = "s_cur"
    /\ st' = set_current(st, fg.h, fg.td)
    /\ fg' = [fg EXCEPT !.pc = "s_hw"]
    /\ UNCHANGED <<bld, hist>>

\* i2s_master_transfer(...); return 0;
transfer_start_hw ==
    /\ ~IrqPending
    /\ fg.pc = "s_hw"
    /\ st' = i2s_master_transfer(st, fg.h, fg.td)
    /\ return_transfer(0)

\* ------------------------------------------------ abort and reset calls
call_abort_transfer(h) ==
    /\ ~IrqPending
    /\ fg.pc = "idle"
    /\ st' = abort_transfer(st, h)
    /\ UNCHANGED <<fg, bld, hist>>

call_clear_transfer_buffer(h) ==
    /\ ~IrqPending
    /\ fg.pc = "idle"
    /\ st' = clear_transfer_buffer(st)
    /\ UNCHANGED <<fg, bld, hist>>

\* I2S::abort_all_transfers: clear_transfer_buffer();  fkill is the set of
\* transfers queued or running at the call
abort_all_transfers_clear(h) ==
    /\ ~IrqPending
    /\ fg.pc = "idle"
    /\ st' = clear_transfer_buffer(st)
    /\ fg' = [fg EXCEPT !.pc = "aa_abort", !.h = h]
    /\ hist' = [hist EXCEPT !.fkill = {st.queue[i].td.id : i \in 1..Len(st.queue)}
                                      \cup ({st.hwActive} \ {0})]
    /\ UNCHANGED bld

\* I2S::abort_all_transfers: abort_transfer();  killed collects fkill at the return
abort_all_transfers_abort ==
    /\ ~IrqPending
    /\ fg.pc = "aa_abort"
    /\ st' = abort_transfer(st, fg.h)
    /\ fg' = NoCall
    /\ hist' = [hist EXCEPT !.killed = @ \cup hist.fkill, !.fkill = {}]
    /\ UNCHANGED bld

\* ------------------------------------------------ configuration mutators
mutator(h, f, v) ==
    /\ ~IrqPending
    /\ fg.pc = "idle"
    /\ hist.nmut < MaxMutations
    /\ st' = set_field(st, h, f, v)
    /\ fg' = [fg EXCEPT !.pc = "m_aquire", !.h = h]
    /\ hist' = [hist EXCEPT !.nmut = @ + 1]
    /\ UNCHANGED bld

format(h, v) == mutator(h, "format", v)
audio_frequency(h, v) == mutator(h, "hz", v)
set_protocol(h, v) == mutator(h, "protocol", v)
set_mode(h, v) == mutator(h, "mode", v)

\* the aquire() that ends each mutator
mutator_aquire ==
    /\ ~IrqPending
    /\ fg.pc = "m_aquire"
    /\ st' = aquire(st, fg.h)
    /\ fg' = NoCall
    /\ UNCHANGED <<bld, hist>>

\* get_transfer_status() called on object h between two calls or while a
\* builder is held; status is the value returned
call_get_transfer_status(h) ==
    /\ ~IrqPending
    /\ fg.pc \in {"idle", "build"}
    /\ hist' = [hist EXCEPT !.status = get_transfer_status(st)]
    /\ UNCHANGED <<st, fg, bld>>

\* aquire() called on object h from a derived class (the method is protected)
call_aquire(h) ==
    /\ ~IrqPending
    /\ fg.pc = "idle"
    /\ Len(st.alog) < st.logCap
    /\ st' = aquire(st, h)
    /\ UNCHANGED <<fg, bld, hist>>

\* ------------------------------------------------ the unit and interrupts
\* the running transfer ends; the unit raises the interrupt of each channel in chs
HwComplete(chs) ==
    /\ ~IrqPending
    /\ st.hwActive # 0
    /\ st' = [st EXCEPT !.hwActive = 0,
                        !.pend = [c \in Channels |->
                                    IF c \in chs
                                    THEN [ev |-> {"COMPLETE", "INTERNAL"}, id |-> st.hwActive]
                                    ELSE st.pend[c]]]
    /\ UNCHANGED <<fg, bld, hist>>

\* the unit raises the interrupt of channel c for an event of one buffer (half
\* of a buffer moved, a buffer of a circular transfer finished); the
\* transfer goes on
HwBufferEvent(c) ==
    /\ ~IrqPending
    /\ st.hwActive # 0
    /\ st' = [st EXCEPT !.pend[c] = [ev |-> {"BUFFER"}, id |-> st.hwActive]]
    /\ UNCHANGED <<fg, bld, hist>>

IrqTx ==
    /\ st.pend["tx"] # NoIrq
    /\ st' = irq_handler_asynch_tx(st)
    /\ UNCHANGED <<fg, bld, hist>>

IrqRx ==
    /\ st.pend["rx"] # NoIrq
    /\ st' = irq_handler_asynch_rx(st)
    /\ UNCHANGED <<fg, bld, hist>>

\* ------------------------------------------------ specifications
Builder ==
    \/ \E h \in Handles : transfer_adder_elided(h)
    \/ apply
    \/ destroy

Submission ==
    \/ transfer_lock
    \/ transfer_check
    \/ transfer_queue
    \/ transfer_start_aquire
    \/ transfer_start_current
    \/ transfer_start_hw

Reset ==
    \/ \E h \in Handles : call_abort_transfer(h)
    \/ \E h \in Handles : call_clear_transfer_buffer(h)
    \/ \E h \in Handles : abort_all_transfers_clear(h)
    \/ abort_all_transfers_abort

\* the argument of a mutator call: a value the field has not had before
NewVals == {hist.nmut + 1}

Mutators ==
    \/ \E h \in Handles, v \in NewVals : format(h, v)
    \/ \E h \in Handles, v \in NewVals : audio_frequency(h, v)
    \/ \E h \in Handles, v \in NewVals : set_protocol(h, v)
    \/ \E h \in Handles, v \in NewVals : set_mode(h, v)
    \/ mutator_aquire

Unit ==
    \/ \E chs \in (SUBSET Channels) \ {{}} : HwComplete(chs)
    \/ IrqTx
    \/ IrqRx

\* transfers, aborts and resets, every builder returned without a copy
Next == Builder \/ Submission \/ Reset \/ Unit
Spec == Init /\ [][Next]_vars

\* the same with callbacks registered
NextCallback == Next \/ \E cbv \in BOOLEAN : callback(cbv)
InitCallback == InitWith(MaxCallbackTransfers)
SpecCallback == InitCallback /\ [][NextCallback]_vars

\* the builder, with and without the copy on return from I2S::transfer()
NextBuilder ==
    \/ Builder
    \/ \E h \in Handles : transfer_adder_copied(h)
    \/ Submission
    \/ Unit
SpecBuilder == Init /\ [][NextBuilder]_vars

\* configuration mutators, and transfers committed by the builder's destructor
NextConfig ==
    \/ \E h \in Handles : transfer_adder_elided(h)
    \/ destroy
    \/ Submission
    \/ Mutators
    \/ Unit
InitConfig == InitWith(MaxConfigTransfers)
SpecConfig == InitConfig /\ [][NextConfig]_vars

\* the setters of the builder
Lens == 0..MaxLen
Setters ==
    \/ \E n \in Lens : tx(n)
    \/ \E n \in Lens : rx(n)
    \/ \E mode \in BOOLEAN : circular(mode)
    \/ \E cbv \in BOOLEAN : callback(cbv)
NextSetters == Builder \/ Setters \/ Submission \/ Unit
InitSetters == InitWith(MaxSetterTransfers)
SpecSetters == InitSetters /\ [][NextSetters]_vars

\* transfers whose unit raises per-buffer events before the completion
NextEvents ==
    \/ Builder
    \/ Submission
    \/ Unit
    \/ \E c \in Channels : HwBufferEvent(c)
InitEvents == InitWith(MaxEventTransfers)
SpecEvents == InitEvents /\ [][NextEvents]_vars

\* transfers without abort and reset calls.  A call of I2S::transfer(td) in
\* progress runs to its return, a builder is destroyed at the end of its
\* statement, a running transfer ends and raises its interrupt, a raised
\* interrupt is handled; the user need not submit again.
NextLive == Builder \/ Submission \/ Unit
InitLive == InitWith(MaxLiveTransfers)
SpecLive ==
    /\ InitLive
    /\ [][NextLive]_vars
    /\ WF_vars(Submission)
    /\ WF_vars(destroy)
    /\ WF_vars(Unit)

\* transfers, aborts and resets with the status polled
NextStatus == Next \/ \E h \in Handles : call_get_transfer_status(h)
InitStatus == InitWith(MaxStatusTransfers)
SpecStatus == InitStatus /\ [][NextStatus]_vars

\* transfers, aborts and resets, three submissions
InitAbort == InitWith(MaxAbortTransfers)
SpecAbort == InitAbort /\ [][Next]_vars

\* transfers, aborts and resets with the unlocked writes recorded
InitLocks ==
    /\ st = [InitSt EXCEPT !.audit = TRUE]
    /\ fg = NoCall
    /\ bld = NoBuilder
    /\ hist = [nextId |-> 1, quota |-> MaxLockTransfers, nsub |-> 0, rc |-> 0,
               applyrc |-> 0, fkill |-> {}, killed |-> {}, nmut |-> 0, status |-> 0]
SpecLocks == InitLocks /\ [][Next]_vars

\* aquire() called directly and by the mutators, with the log of owners kept
NextAquire ==
    \/ \E h \in Handles : call_aquire(h)
    \/ Mutators
InitAquire ==
    /\ st = [InitSt EXCEPT !.logCap = MaxAquires]
    /\ fg = NoCall
    /\ bld = NoBuilder
    /\ hist = [nextId |-> 1, quota |-> 0, nsub |-> 0, rc |-> 0, applyrc |-> 0,
               fkill |-> {}, killed |-> {}, nmut |-> 0, status |-> 0]
SpecAquire == InitAquire /\ [][NextAquire]_vars

\* ------------------------------------------------ claims
\* C1: at most one transfer is active on the unit: start_transfer() is never
\* executed while a transfer started before has neither completed nor been
\* aborted.
C1_AtMostOneActive == ~st.overlap

\* C2: transfers start in submission order: when a transfer has been started,
\* no submission accepted before it is still waiting in the queue.
C2_StartsInSubmissionOrder ==
    \A i \in 1..Len(st.queue), j \in 1..Len(st.startLog) :
        st.startLog[j] < st.queue[i].td.id

\* a submission is routed to queue_transfer while the queue holds QueueSize entries
RoutedToFullQueue == fg.pc = "t_queue" /\ size(st.queue) = QueueSize

\* C3: the queue never holds more than QueueSize entries, and a submission
\* routed to the queue while it holds QueueSize entries returns -1 and leaves
\* the queue as it was.
C3_QueueBound ==
    /\ [](size(st.queue) <= QueueSize)
    /\ [][(RoutedToFullQueue /\ fg'.pc # "t_queue")
            => (hist'.rc = -1 /\ st'.queue = st.queue)]_vars

C3_Witness == hist.rc = -1 /\ size(st.queue) = QueueSize /\ fg.pc # "t_queue"

\* C4: a rejected submission leaves the session state as it was before the
\* call.  fg.queue holds the value _busy had when the call began; the
\* statements between (the test of queue and i2s_active) assign nothing.
C4_RejectedLeavesState ==
    [][(fg.pc = "t_queue" /\ fg'.pc # "t_queue" /\ hist'.rc = -1)
         => (/\ st'.busy[fg.h] = fg.queue
             /\ st'.cur = st.cur
             /\ st'.queue = st.queue
             /\ st'.owner = st.owner
             /\ st'.hwActive = st.hwActive)]_vars

\* C5: a request made with the builder ends in exactly one submission: once
\* the builder of the request is destroyed, I2S::transfer(td) has run once
\* for it, whether the builder was copied on return or not.
C5_ExactlyOneSubmission ==
    (fg.pc = "idle" /\ hist.nextId > 1) => hist.nsub = 1

\* a step of the foreground (interrupt handlers and the unit leave fg, bld and
\* hist as they are)
ForegroundStep == <<fg, bld, hist>>' # <<fg, bld, hist>>

\* C6: apply() is idempotent: the first call performs the submission and
\* records its result code; on an applied builder a further apply(), explicit
\* or from the destructor, submits nothing, changes no session state, and an
\* explicit one returns the recorded code.
C6_ApplyIdempotent ==
    /\ [][(fg.pc = "build" /\ bld.applied /\ ForegroundStep)
            => (/\ st' = st
                /\ hist'.nsub = hist.nsub
                /\ fg'.pc \in {"build", "idle"}
                /\ bld'.live => (bld'.rc = bld.rc /\ hist'.applyrc = bld.rc))]_vars
    /\ [][(fg.cont = "apply" /\ fg'.pc = "build" /\ fg.pc # "build")
            => (bld'.applied /\ bld'.rc = hist'.rc /\ hist'.applyrc = hist'.rc)]_vars

\* apply() was called a second time on a builder whose submission had been
\* rejected, after the queue had room again: it still returns -1
C6_Witness ==
    /\ fg.pc = "build"
    /\ bld.calls = 2
    /\ bld.rc = -1
    /\ hist.applyrc = -1
    /\ size(st.queue) < QueueSize

\* C7: abort_transfer() stops the active transfer and starts the head of the
\* queue, which leaves the queue; with an empty queue it leaves the unit idle
\* and _busy false; called when nothing is active it changes nothing.
C7_AbortStartsNext ==
    [][\A h \in Handles :
         call_abort_transfer(h) =>
            IF i2s_active(st)
            THEN IF st.queue # <<>>
                 THEN /\ st'.hwActive = Head(st.queue).td.id
                      /\ st'.cur[Head(st.queue).obj] = Head(st.queue).td
                      /\ st'.queue = Tail(st.queue)
                 ELSE /\ st'.hwActive = 0
                      /\ ~st'.busy[h]
                      /\ st'.queue = <<>>
            ELSE Session(st') = Session(st)]_vars

\* the transfers abort_all_transfers() has killed
NotAlive(ids) ==
    /\ st.hwActive \notin ids
    /\ \A c \in Channels : st.pend[c].id \notin ids
    /\ \A i \in 1..Len(st.queue) : st.queue[i].td.id \notin ids

\* C8: when abort_all_transfers() returns the queue is empty and nothing is
\* active, and no transfer that was queued or active when it was called is
\* started or completes afterwards.
C8_AbortAllKills ==
    /\ [][(fg.pc = "aa_abort" /\ fg'.pc # "aa_abort")
            => (st'.queue = <<>> /\ st'.hwActive = 0 /\ ~IrqPending')]_vars
    /\ []NotAlive(hist.killed)

\* abort_all_transfers() has returned after killing a running and a queued
\* transfer, and a transfer submitted afterwards is running
C8_Witness ==
    /\ Cardinality(hist.killed) >= 2
    /\ st.hwActive # 0
    /\ st.hwActive \notin hist.killed

\* C9: clear_transfer_buffer() empties the queue and changes nothing else: the
\* active transfer, _busy and _owner stay; a dropped transfer is never
\* started and its callback is never posted.
C9_ClearOnlyEmptiesQueue ==
    /\ [][st'.dropped # st.dropped
            => (/\ st'.queue = <<>>
                /\ st' = [st EXCEPT !.queue = <<>>, !.dropped = st'.dropped,
                                    !.bare = st'.bare])]_vars
    /\ [](\A id \in st.dropped :
            /\ st.hwActive # id
            /\ st.lastPost.cb # id
            /\ \A j \in 1..Len(st.startLog) : st.startLog[j] # id
            /\ \A h \in Handles : st.cur[h].id # id)

\* a transfer with a callback was dropped from the queue while another was
\* running; the one that was running has completed and its callback is posted
C9_Witness ==
    /\ st.dropped # {}
    /\ st.queue = <<>>
    /\ st.lastPost.cb # 0
    /\ st.lastPost.cb \notin st.dropped

OwnerBefore(i) == IF i = 1 THEN NULL ELSE st.alog[i - 1].h

\* C11: aquire() by object h writes the configuration of h to the hardware if
\* and only if _owner differs from h before the call, and leaves _owner = h:
\* every recorded call wrote exactly when the owner before it was another
\* object or none, so H1, H2, H1 write three times and a repeated call none.
C11_AquireWritesIffNotOwner ==
    /\ [](\A i \in 1..Len(st.alog) :
            st.alog[i].h # NULL => (st.alog[i].wrote <=> OwnerBefore(i) # st.alog[i].h))
    /\ [][(Len(st'.alog) > Len(st.alog) /\ st'.alog[Len(st'.alog)].h # NULL)
            => LET h == st'.alog[Len(st'.alog)].h
               IN /\ st'.owner = h
                  /\ st'.hwCfg = IF st.owner # h THEN st.cfg[h] ELSE st.hwCfg]_vars

\* two objects called aquire() in the order H1, H2, H1, H1: three writes, then none
C11_Witness ==
    \E i \in 1..(Len(st.alog) - 3) :
        /\ st.alog[i].h \in Handles
        /\ st.alog[i + 1].h \in Handles \ {st.alog[i].h}
        /\ st.alog[i + 2].h = st.alog[i].h
        /\ st.alog[i + 3].h = st.alog[i].h
        /\ st.alog[i].wrote /\ st.alog[i + 1].wrote /\ st.alog[i + 2].wrote
        /\ ~st.alog[i + 3].wrote

\* get_transfer_status() can be called here
CanPoll == ~IrqPending /\ fg.pc \in {"idle", "build"}

\* C12: get_transfer_status() changes no state and returns the state of the
\* transfer state machine: -1 from the start of a transfer up to the
\* completion that finds the queue empty, 0 when the state machine is Idle.
C12_StatusIsMachineState ==
    /\ [](CanPoll => (get_transfer_status(st) = IF st.smBusy THEN -1 ELSE 0))
    /\ [][\A h \in Handles : call_get_transfer_status(h) =>
            (st' = st /\ hist'.status = IF st.smBusy THEN -1 ELSE 0)]_vars

\* a call of the setter of field f
SetterCall(f) ==
    CASE f = "tx" -> \E n \in Lens : tx(n)
      [] f = "rx" -> \E n \in Lens : rx(n)
      [] f = "circular" -> \E mode \in BOOLEAN : circular(mode)
      [] f = "callback" -> \E cbv \in BOOLEAN : callback(cbv)

\* C13: for every field of the builder, a second call of its setter before
\* the builder is applied fails by assertion and leaves the value of the
\* first call, whatever that value was.
C13_SecondSetAsserts ==
    [][\A f \in BuilderFields :
         (f \in bld.set /\ ~bld.applied /\ SetterCall(f))
            => (fg'.pc = "halt" /\ bld'.td = bld.td)]_vars

\* the handler of channel c runs for an event mask without the
\* transfer-complete indicator
HandlesBufferEventOnly(c) ==
    /\ st.pend[c] # NoIrq
    /\ st'.pend[c] = NoIrq
    /\ st.pend[c].ev \cap I2S_EVENT_INTERNAL_TRANSFER_COMPLETE = {}

\* C14: an interrupt whose event mask holds only per-buffer events and not
\* the transfer-complete indicator does not advance the queue: the handler
\* pops nothing, starts no transfer and leaves _busy unchanged.
C14_BufferEventKeepsQueue ==
    [][\A c \in Channels :
         HandlesBufferEventOnly(c)
            => (/\ st'.queue = st.queue
                /\ st'.startLog = st.startLog
                /\ st'.hwActive = st.hwActive
                /\ st'.busy = st.busy)]_vars

\* submission id waits in the queue, having been accepted with result 0
Queued(id) == \E i \in 1..Len(st.queue) : st.queue[i].td.id = id
Started(id) == \E j \in 1..Len(st.startLog) : st.startLog[j] = id

\* C15: every accepted submission is eventually started on the hardware, when
\* every started transfer raises its completion interrupt and neither
\* clear_transfer_buffer() nor abort_all_transfers() is called.
C15_AcceptedEventuallyStarted ==
    \A id \in 1..MaxTransfers : Queued(id) ~> Started(id)

\* no foreground call and no interrupt handler is in progress
Quiescent == ~IrqPending /\ fg.pc \in {"idle", "build"}

\* C16: no queued transfer is stranded: when no call and no handler is in
\* progress, a non-empty queue implies a transfer active on the hardware.
C16_NoStrandedEntry ==
    (Quiescent /\ st.queue # <<>>) => i2s_active(st)

\* C17: the busy flag never stays set on an idle unit: when no operation is in
\* progress, nothing is active and the queue is empty, _busy is false on
\* every object.
C17_BusyNotStale ==
    (Quiescent /\ ~i2s_active(st) /\ st.queue = <<>>)
        => \A h \in Handles : ~st.busy[h]

\* C18: every write to _busy, to _current_transaction and to the contents of
\* the transfer queue is executed while a CriticalSectionLock is held.
C18_SharedWritesLocked == st.bare = {}

\* C19: a callback posted by an interrupt handler is the callback, with the
\* buffers, of the transfer whose event raised the interrupt, never that of
\* a transfer started in between.
C19_CallbackOfCausingTransfer == st.lastPost.cb = st.lastPost.cause

\* C20: the configuration of the physical unit never changes while a transfer
\* is in flight: a mutator called during a transfer does not write to the
\* hardware before that transfer has ended.
C20_ConfigStableDuringTransfer ==
    [][(i2s_active(st) /\ st'.hwActive = st.hwActive) => st'.hwCfg = st.hwCfg]_vars

====
